---- MODULE Spec2Model ----
(***************************************************************************)
(* Model of the train finder of transit-safe-cta (src/main.py).            *)
(*                                                                         *)
(* Python dicts are functions with a domain of strings, so that a missing  *)
(* key is a key outside DOMAIN; Python lists are sequences.  Coordinates   *)
(* are kept in units of 1e-7 degree, raw distances in millimetres and      *)
(* distance_meters (a float with one decimal) in tenths of a metre.        *)
(***************************************************************************)
EXTENDS Integers, Sequences, FiniteSets, TLC

\* ---------------------------------------------------------------- bounds
MaxTrains == 3
MaxRequests == 2

\* ------------------------------------------------------- python helpers
EmptyDict == <<>>

None == [py |-> "None"]

Get(d, k, default) == IF k \in DOMAIN d THEN d[k] ELSE default

\* float(s) for the coordinate strings of the model, in 1e-7 degree.
FloatTable ==
  [s \in {"41.878190", "41.879449", "41.8794494", "41.879898", "41.879899",
          "-87.6298"} |->
     CASE s = "41.878190"  -> 418781900
       [] s = "41.879449"  -> 418794490
       [] s = "41.8794494" -> 418794494
       [] s = "41.879898"  -> 418798980
       [] s = "41.879899"  -> 418798990
       [] s = "-87.6298"   -> -876298000]

IsFloatString(s) == s \in DOMAIN FloatTable

float(s) == FloatTable[s]

\* calculate_distance on the coordinates of the model: the haversine value
\* computed by the source, in millimetres.
calculate_distance(lat1, lon1, lat2, lon2) ==
  CASE lat1 = 418781000 /\ lat2 = 418781900 -> 10008
    [] lat1 = 418781000 /\ lat2 = 418794490 -> 150002
    [] lat1 = 418781000 /\ lat2 = 418794494 -> 150046
    [] lat1 = 418781000 /\ lat2 = 418798980 -> 199928
    [] lat1 = 418781000 /\ lat2 = 418798990 -> 200040
    [] lat1 = 418798990 /\ lat2 = 418781900 -> 190032
    [] lat1 = 418798990 /\ lat2 = 418794490 -> 50038
    [] lat1 = 418798990 /\ lat2 = 418794494 -> 49993
    [] lat1 = 418798990 /\ lat2 = 418798980 -> 111
    [] lat1 = 418798990 /\ lat2 = 418798990 -> 0

\* round(x, 1): millimetres to tenths of a metre, ties to the even tenth.
round1(mm) ==
  LET q == mm \div 100
      r == mm % 100
  IN  IF r < 50 THEN q
      ELSE IF r > 50 THEN q + 1
      ELSE IF q % 2 = 0 THEN q ELSE q + 1

\* ------------------------------------------------------ upstream payloads
\* A well-formed raw vehicle record of the positions API; isSch "" stands
\* for a record that carries no isSch key.
RawTrain(isSch, lat) ==
  LET base == [rn |-> "417", destNm |-> "Howard", nextStaNm |-> "Belmont",
               lat |-> lat, lon |-> "-87.6298"]
  IN  IF isSch = "" THEN base ELSE base @@ [isSch |-> isSch]

LiveRecords ==
  { RawTrain("0", l) : l \in {"41.878190", "41.879449", "41.8794494",
                              "41.879898", "41.879899"} }
  \cup { RawTrain("", "41.879899") }

GhostRecords == { RawTrain("1", l) : l \in {"41.878190", "41.879898"} }

\* Records the mapping loop cannot parse: no lat, a lat or a lon that is
\* not a number, no run number.
MalformedRecords ==
  { [rn |-> "417", destNm |-> "Howard", nextStaNm |-> "Belmont",
     lon |-> "-87.6298", isSch |-> "0"],
    [rn |-> "417", destNm |-> "Howard", nextStaNm |-> "Belmont",
     lat |-> "n/a", lon |-> "-87.6298", isSch |-> "1"],
    [rn |-> "417", destNm |-> "Howard", nextStaNm |-> "Belmont",
     lat |-> "41.879449", lon |-> "", isSch |-> "0"],
    [destNm |-> "Howard", nextStaNm |-> "Belmont",
     lat |-> "41.878190", lon |-> "-87.6298", isSch |-> "0"] }

TrainRecords == LiveRecords \cup GhostRecords \cup MalformedRecords

RECURSIVE SeqsUpTo(_, _)
SeqsUpTo(S, n) ==
  IF n = 0 THEN { <<>> }
  ELSE LET shorter == SeqsUpTo(S, n - 1)
       IN  shorter \cup { Append(q, x) : q \in { r \in shorter : Len(r) = n - 1 },
                                         x \in S }

TrainLists == SeqsUpTo(TrainRecords, MaxTrains)

\* The value of data['ctatt']['route'] when the key is there: an empty
\* list, an entry without a train key, or an entry with a train list.
RouteLists(trains) ==
  { <<>>, << EmptyDict >> } \cup { << [train |-> tl] >> : tl \in trains }

CtattDicts(trains) ==
  { EmptyDict } \cup { [route |-> r] : r \in RouteLists(trains) }

ErrTexts == { "Invalid route" }

\* The decoded JSON bodies: no ctatt key; a ctatt without errNm; a ctatt
\* with an empty errNm; a ctatt with an error text.
Payloads ==
  { EmptyDict }
  \cup { [ctatt |-> c] : c \in CtattDicts(TrainLists) }
  \cup { [ctatt |-> c @@ [errNm |-> e]] :
           c \in CtattDicts(SeqsUpTo(TrainRecords, 1)), e \in ErrTexts \cup {""} }

\* What requests.get / raise_for_status / json did: exc is "none" when the
\* body was decoded, else the requests.RequestException raised.
UpstreamOutcomes ==
  { [exc |-> "none", data |-> d] : d \in Payloads }
  \cup { [exc |-> e, data |-> EmptyDict] : e \in {"ConnectionError", "HTTPError"} }

\* The observer positions (lat, lon) the endpoint is called with.
Observers == { <<418781000, -876298000>>, <<418798990, -876298000>> }

\* ------------------------------------------------------------ the handler
\* What the endpoint gives the caller: a returned dict, an HTTPException,
\* or an exception that no handler of the function catches.
Return(body) == [type |-> "return", body |-> body]

HTTPException(status_code, detail) ==
  [type |-> "HTTPException", status_code |-> status_code, detail |-> detail]

Unhandled(exc) == [type |-> "unhandled", exc |-> exc]

\* The number of requests.get calls of one run of the handler.
UpstreamCallsRetrying(up) == IF up.exc = "none" THEN 1 ELSE 2

UpstreamCalls(up) == 1

\* except requests.RequestException: a 500 whose detail is the f-string
\* "Failed to connect to CTA: {str(e)}".
ConnectFailure(exc) == HTTPException(500, << "Failed to connect to CTA: ", exc >>)

\* if data.get('ctatt', {}).get('errNm'): the key is there and its value is
\* not the empty string.
ErrNmSetTopLevel(data) == "errNm" \in DOMAIN data /\ data["errNm"] # ""

ErrNmSet(data) ==
  LET ctatt == Get(data, "ctatt", EmptyDict)
  IN  "errNm" \in DOMAIN ctatt /\ ctatt["errNm"] # ""

UpstreamReportedError(data) ==
  HTTPException(400, << "CTA API Error: ", data["ctatt"]["errNm"] >>)

\* data['ctatt']['route'][0]['train']: the exception the lookup raises, or
\* "none".
PathError(data) ==
  IF "ctatt" \notin DOMAIN data THEN "KeyError"
  ELSE IF "route" \notin DOMAIN data["ctatt"] THEN "KeyError"
  ELSE IF Len(data["ctatt"]["route"]) = 0 THEN "IndexError"
  ELSE IF "train" \notin DOMAIN data["ctatt"]["route"][1] THEN "KeyError"
  ELSE "none"

raw_trains(data) == data["ctatt"]["route"][1]["train"]

\* except (KeyError, IndexError)
PathCaughtKeyErrorOnly(exc) == exc \in {"KeyError"}

PathCaught(exc) == exc \in {"KeyError", "IndexError"}

NoTrainsResult ==
  Return([found |-> FALSE, message |-> "No trains found on this line right now."])

\* is_ghost = (t.get('isSch', '0') == '1')
is_ghost_default_ghost(t) == Get(t, "isSch", "1") = "1"

is_ghost(t) == Get(t, "isSch", "0") = "1"

\* The first exception one pass of the loop body raises on record t, in the
\* order the body evaluates: float(t['lat']), float(t['lon']), t['rn'],
\* t['destNm'], t['nextStaNm'].
RecordError(t) ==
  IF "lat" \notin DOMAIN t THEN "KeyError"
  ELSE IF ~IsFloatString(t["lat"]) THEN "ValueError"
  ELSE IF "lon" \notin DOMAIN t THEN "KeyError"
  ELSE IF ~IsFloatString(t["lon"]) THEN "ValueError"
  ELSE IF {"rn", "destNm", "nextStaNm"} \ DOMAIN t # {} THEN "KeyError"
  ELSE "none"

\* The dict one pass of the loop body appends.
MappedTrain(t, lat, lon) ==
  LET t_lat == float(t["lat"])
      t_lon == float(t["lon"])
      dist_meters == calculate_distance(lat, lon, t_lat, t_lon)
  IN  [run_number |-> t["rn"],
       destination |-> t["destNm"],
       next_stop |-> t["nextStaNm"],
       lat |-> t_lat,
       lon |-> t_lon,
       distance_meters |-> round1(dist_meters),
       is_ghost |-> is_ghost(t)]

\* The for loop: the exception of the first record that raises, or "none".
RECURSIVE LoopError(_)
LoopError(trains) ==
  IF trains = <<>> THEN "none"
  ELSE IF RecordError(Head(trains)) # "none" THEN RecordError(Head(trains))
  ELSE LoopError(Tail(trains))

all_mapped_trains(trains, lat, lon) ==
  [i \in 1..Len(trains) |-> MappedTrain(trains[i], lat, lon)]

\* [t for t in all_mapped_trains if not t['is_ghost']]
live_trains_unfiltered(mapped) == mapped

live_trains(mapped) == SelectSeq(mapped, LAMBDA t : ~t.is_ghost)

\* list.sort(key=distance_meters): a stable sort, so an element goes after
\* every element already placed whose key is not larger.
RECURSIVE InsertAfterEqual(_, _)
InsertAfterEqual(x, sorted) ==
  IF sorted = <<>> THEN << x >>
  ELSE IF Head(sorted).distance_meters <= x.distance_meters
       THEN << Head(sorted) >> \o InsertAfterEqual(x, Tail(sorted))
       ELSE << x >> \o sorted

RECURSIVE InsertBeforeEqual(_, _)
InsertBeforeEqual(x, sorted) ==
  IF sorted = <<>> THEN << x >>
  ELSE IF Head(sorted).distance_meters < x.distance_meters
       THEN << Head(sorted) >> \o InsertBeforeEqual(x, Tail(sorted))
       ELSE << x >> \o sorted

RECURSIVE SortUnstable(_)
SortUnstable(s) ==
  IF s = <<>> THEN <<>>
  ELSE InsertBeforeEqual(s[Len(s)], SortUnstable(SubSeq(s, 1, Len(s) - 1)))

RECURSIVE sort_by_distance(_)
sort_by_distance(s) ==
  IF s = <<>> THEN <<>>
  ELSE InsertAfterEqual(s[Len(s)], sort_by_distance(SubSeq(s, 1, Len(s) - 1)))

\* closest = None; if live_trains: closest = live_trains[0]
closest(live) == IF live # <<>> THEN live[1] ELSE None

\* "High" if (closest and closest['distance_meters'] < 200) else "Low";
\* distance_meters is in tenths of a metre.
ConfidenceThreshold == 2000

confidence_inclusive(c) ==
  IF c # None /\ c.distance_meters <= ConfidenceThreshold THEN "High" ELSE "Low"

confidence(c) ==
  IF c # None /\ c.distance_meters < ConfidenceThreshold THEN "High" ELSE "Low"

SelectionResult(trains, lat, lon) ==
  LET mapped == all_mapped_trains(trains, lat, lon)
      c == closest(sort_by_distance(live_trains(mapped)))
  IN  Return([found |-> c # None,
              closest_train |-> c,
              confidence |-> confidence(c),
              all_trains |-> mapped])

\* find_user_train(route, lat, lon), given what the upstream call did.
find_user_train(up, lat, lon) ==
  IF up.exc # "none" THEN ConnectFailure(up.exc)
  ELSE IF ErrNmSet(up.data) THEN UpstreamReportedError(up.data)
  ELSE IF PathError(up.data) # "none"
       THEN IF PathCaught(PathError(up.data)) THEN NoTrainsResult
            ELSE Unhandled(PathError(up.data))
  ELSE IF LoopError(raw_trains(up.data)) # "none"
       THEN Unhandled(LoopError(raw_trains(up.data)))
  ELSE SelectionResult(raw_trains(up.data), lat, lon)

\* ------------------------------------------------------------------ state
VARIABLES
  pc,              \* "idle": no request in progress; "responded": one answered
  lat, lon,        \* the observer position of the request answered
  upstream,        \* what the upstream call of that request did
  result,          \* what the handler gave the caller
  requests,        \* requests handled so far
  upstreamCalls,   \* requests.get calls made so far
  notFoundConfidence  \* confidence of the found=false results given so far

vars == << pc, lat, lon, upstream, result, requests, upstreamCalls,
           notFoundConfidence >>

NoRequest == [exc |-> "none", data |-> EmptyDict]

NoResult == [type |-> "none"]

\* The confidence field of a returned dict, "absent" when it has none.
ConfidenceField(r) == Get(r.body, "confidence", "absent")

Init ==
  /\ pc = "idle"
  /\ lat = 0
  /\ lon = 0
  /\ upstream = NoRequest
  /\ result = NoResult
  /\ requests = 0
  /\ upstreamCalls = 0
  /\ notFoundConfidence = {}

\* GET /find-train/{route}?lat=&lon= : one run of find_user_train, for any
\* observer position and anything the upstream call may do.
FindUserTrain ==
  /\ pc = "idle"
  /\ requests < MaxRequests
  /\ \E up \in UpstreamOutcomes, obs \in Observers :
       LET r == find_user_train(up, obs[1], obs[2])
       IN  /\ result' = r
           /\ notFoundConfidence' =
                IF r.type = "return" /\ ~r.body.found
                THEN notFoundConfidence \cup { ConfidenceField(r) }
                ELSE notFoundConfidence
           /\ lat' = obs[1]
           /\ lon' = obs[2]
           /\ upstream' = up
           /\ upstreamCalls' = upstreamCalls + UpstreamCalls(up)
  /\ requests' = requests + 1
  /\ pc' = "responded"

\* The response is sent and nothing of the request is kept.
Complete ==
  /\ pc = "responded"
  /\ pc' = "idle"
  /\ lat' = 0
  /\ lon' = 0
  /\ upstream' = NoRequest
  /\ result' = NoResult
  /\ UNCHANGED << requests, upstreamCalls, notFoundConfidence >>

Next ==
  \/ FindUserTrain
  \/ Complete

Spec == Init /\ [][Next]_vars

\* ----------------------------------------------------------------- claims
\* What the claims say of a request, stated on the upstream payload itself.
Responded == pc = "responded"

Decoded == Responded /\ upstream.exc = "none"

Data == upstream.data

HasCtatt == "ctatt" \in DOMAIN Data

HasErrNmField == HasCtatt /\ "errNm" \in DOMAIN Data["ctatt"]

ErrorNamed == HasErrNmField /\ Data["ctatt"]["errNm"] # ""

HasTrainPath ==
  /\ HasCtatt
  /\ "route" \in DOMAIN Data["ctatt"]
  /\ Data["ctatt"]["route"] # <<>>
  /\ "train" \in DOMAIN Data["ctatt"]["route"][1]

Raw == Data["ctatt"]["route"][1]["train"]

WellFormed(t) ==
  /\ {"lat", "lon", "rn", "destNm", "nextStaNm"} \subseteq DOMAIN t
  /\ IsFloatString(t["lat"])
  /\ IsFloatString(t["lon"])

\* A selection is made: the payload names no error, has the train path and
\* every record of it parses.
Selecting ==
  /\ Decoded
  /\ ~ErrorNamed
  /\ HasTrainPath
  /\ \A i \in 1..Len(Raw) : WellFormed(Raw[i])

IsLive(t) == "isSch" \notin DOMAIN t \/ t["isSch"] = "0"

IsGhostRecord(t) == "isSch" \in DOMAIN t /\ t["isSch"] = "1"

LiveIdx == { i \in 1..Len(Raw) : ~IsGhostRecord(Raw[i]) }

\* distance_meters of the i-th raw record from the observer, in tenths.
Dist(i) ==
  round1(calculate_distance(lat, lon, float(Raw[i]["lat"]), float(Raw[i]["lon"])))

Found == Responded /\ result.type = "return" /\ result.body.found

NotFound == Responded /\ result.type = "return" /\ ~result.body.found

Closest == result.body.closest_train

\* C1: when found is true, closest_train is a live candidate whose
\* distance_meters is at most that of every live candidate; a ghost record is
\* never the closest_train, even when it is nearer than every live record.
C1_ClosestIsNearestLive ==
  Found =>
    /\ Closest.is_ghost = FALSE
    /\ \E i \in LiveIdx :
         /\ Closest.distance_meters = Dist(i)
         /\ Closest.lat = float(Raw[i]["lat"])
    /\ \A i \in LiveIdx : Closest.distance_meters <= Dist(i)

\* C1 witness: a closest train was returned although a ghost record is
\* strictly nearer to the observer.
C1_Witness ==
  /\ Found
  /\ \E g \in 1..Len(Raw) :
       IsGhostRecord(Raw[g]) /\ Dist(g) < Closest.distance_meters

C3_ConfidenceStrictlyBelow200 ==
  (Responded /\ result.type = "return" /\ "closest_train" \in DOMAIN result.body
     /\ result.body.closest_train # None) =>
    /\ result.body.confidence \in {"High", "Low"}
    /\ result.body.confidence = "High" <=> Closest.distance_meters < 2000
    /\ Closest.distance_meters = 1999 => result.body.confidence = "High"
    /\ Closest.distance_meters = 2000 => result.body.confidence = "Low"

\* C3 witness: the closest train is at exactly 200.0 m and confidence is Low.
C3_Witness ==
  /\ Found
  /\ Closest.distance_meters = 2000
  /\ result.body.confidence = "Low"

\* C4: a payload with a non-empty ctatt.errNm fails with a 400 whose detail
\* contains that text, with or without the route/train path.
C4_UpstreamErrorIs400 ==
  (Decoded /\ ErrorNamed) =>
    /\ result.type = "HTTPException"
    /\ result.status_code = 400
    /\ \E k \in DOMAIN result.detail : result.detail[k] = Data["ctatt"]["errNm"]

\* C4 witness: the payload names an error and also has a train path with a
\* live record; the request failed with 400.
C4_Witness ==
  /\ Decoded
  /\ ErrorNamed
  /\ HasTrainPath
  /\ \E i \in 1..Len(Raw) : WellFormed(Raw[i]) /\ IsLive(Raw[i])
  /\ result.type = "HTTPException"
  /\ result.status_code = 400

\* C5: a payload without an errNm field that lacks the route/train path (no
\* ctatt, no route, an empty route list, a route entry without train) gives
\* a normal result with found=false and a message, and no exception.
C5_MissingPathIsNotFound ==
  (Decoded /\ ~HasErrNmField /\ ~HasTrainPath) =>
    /\ result.type = "return"
    /\ result.body.found = FALSE
    /\ "message" \in DOMAIN result.body

\* C5 witness: the route list is there and empty, and the result is a
\* not-found dict with a message.
C5_Witness ==
  /\ Decoded
  /\ ~HasErrNmField
  /\ HasCtatt
  /\ "route" \in DOMAIN Data["ctatt"]
  /\ Data["ctatt"]["route"] = <<>>
  /\ NotFound
  /\ "message" \in DOMAIN result.body

\* The least distance_meters among the live records.
MinLiveDist == CHOOSE d \in { Dist(i) : i \in LiveIdx } :
                 \A j \in LiveIdx : d <= Dist(j)

\* The first live record, in upstream order, at the least distance.
FirstNearest == CHOOSE i \in LiveIdx :
                  /\ Dist(i) = MinLiveDist
                  /\ \A j \in LiveIdx : Dist(j) = MinLiveDist => i <= j

\* C6: among live candidates with the same least distance_meters the closest
\* train is the first in upstream order, and the ranking by distance keeps
\* the upstream order of candidates at the same distance.
C6_TiesKeepUpstreamOrder ==
  Found =>
    /\ Closest = result.body.all_trains[FirstNearest]
    /\ LET live == SelectSeq(result.body.all_trains, LAMBDA t : ~t.is_ghost)
           ranked == sort_by_distance(live)
       IN  /\ Len(ranked) = Len(live)
           /\ \A a, b \in 1..Len(ranked) :
                a < b => ranked[a].distance_meters <= ranked[b].distance_meters
           /\ \A i \in 1..Len(live) :
                LET SameDist(t) == t.distance_meters = live[i].distance_meters
                IN  SelectSeq(ranked, SameDist) = SelectSeq(live, SameDist)

\* C6 witness: two different live records share the least distance_meters.
C6_Witness ==
  /\ Found
  /\ \E i, j \in LiveIdx :
       /\ i < j
       /\ Dist(i) = MinLiveDist
       /\ Dist(j) = MinLiveDist
       /\ Raw[i]["lat"] # Raw[j]["lat"]

\* C7: every result with found=false has a message field, when the path is
\* missing and when the train list holds no live record.
C7_MessageWhenNotFound ==
  NotFound => "message" \in DOMAIN result.body

\* C8: the not-found results follow one confidence policy: all omit the
\* confidence field or all carry the same value.
C8_OneConfidencePolicy == Cardinality(notFoundConfidence) <= 1

\* C9: a record whose lat, lon or other required field is missing or not a
\* number is skipped, and a Selection Result is still returned, computed
\* from the remaining records.
C9_MalformedRecordSkipped ==
  (Decoded /\ ~ErrorNamed /\ HasTrainPath
     /\ \E i \in 1..Len(Raw) : ~WellFormed(Raw[i])) =>
    /\ result.type = "return"
    /\ result.body.found <=>
         (\E i \in 1..Len(Raw) : WellFormed(Raw[i]) /\ IsLive(Raw[i]))

\* C10: each request makes exactly one upstream call; a network or HTTP
\* failure of it gives a 500 with a descriptive detail, no second attempt
\* and no Selection Result, unlike the 400 and the found=false outcomes.
C10_OneCallAndFailureIs500 ==
  /\ upstreamCalls = requests
  /\ (Responded /\ upstream.exc # "none") =>
       /\ result.type = "HTTPException"
       /\ result.status_code = 500
       /\ result.status_code # 400
       /\ result.detail[1] = "Failed to connect to CTA: "
       /\ result.detail[2] = upstream.exc

\* C10 witness: the upstream call of the second request failed at the HTTP
\* level and the request failed with 500.
C10_Witness ==
  /\ Responded
  /\ requests = 2
  /\ upstream.exc = "HTTPError"
  /\ result.type = "HTTPException"
  /\ result.status_code = 500

====
